---- MODULE Spec2Model ----
(***************************************************************************)
(* Speech-emotion pipeline of codendushy/speechdata: the MFCC-sequence     *)
(* extractor (extract_mfcc_sequence), the two dataset builders (load_data, *)
(* load_data_dl) and the train/test split they end with, the time-shift    *)
(* augmentation (shift), the class weights, the training of the sequence   *)
(* model with early stopping, the label encoder with predict_emotion, and  *)
(* the scaler of the classical path.  Each part has its own specification. *)
(*                                                                         *)
(* A numpy 2-D array is a record [rows, cols, at], at[i][j] its entry in   *)
(* row i and column j (1-based here, 0-based in the code).                 *)
(***************************************************************************)
EXTENDS Integers, Sequences, FiniteSets, TLC

VARIABLES
    mfcc,        \* extract_mfcc_sequence: the matrix librosa.feature.mfcc returned
    max_len,     \* extract_mfcc_sequence: its max_len argument
    seq_out,     \* extract_mfcc_sequence: the returned array
    seq_pc,      \* "idle" | "start" | "done"
    builder,     \* which dataset builder runs: "load_data" | "load_data_dl" | "none"
    files,       \* the globbed file list, in iteration order
    augment,     \* the builder's augment argument
    test_size,   \* the builder's test_size argument, a ratio [num, den]
    idx,         \* number of files the loop has finished with
    x,           \* the feature list: per example, its clip and the waveform it came from
    y,           \* the label list
    log,         \* indices of the files whose "Error processing" line was printed
    pc,          \* "idle" | "loop" | "returned" | "raised"
    err,         \* the exception that left the builder, and the statement that raised it
    train,       \* returned training partition: positions of x
    test,        \* returned test partition: positions of x
    temp_file,   \* load_data: whether temp_shift.wav exists in the working directory
    split_counts,   \* train_test_split alone: examples per class of the stratify labels
    split_ratio,    \* train_test_split alone: test_size, a ratio [num, den]
    split_out,      \* train_test_split alone: its outcome
    split_pc,       \* "idle" | "start" | "done"
    data,            \* shift: the waveform, a sequence of samples
    shift_max,       \* shift: the maximal fraction of the length, a ratio [num, den]
    shift_direction, \* shift: "right" | "both" | any other string
    shift_amt,       \* shift: the signed number of positions handed to np.roll
    shift_out,       \* shift: the returned waveform
    shift_pc,        \* "idle" | "called" | "returned" | "raised"
    y_train_labels,  \* class weights: examples per class index in the training split
    y_test_labels,   \* class weights: examples per class index in the test split
    class_weights,   \* class weights: the array compute_class_weight returned
    class_weight_dict, \* class weights: dict(enumerate(class_weights))
    weight_pc,       \* "idle" | "start" | "done"
    keras_major,     \* fit: major version of the installed Keras, 2 or 3
    epoch,           \* fit: number of epochs run
    val_loss,        \* fit: validation loss of the last epoch
    best,            \* EarlyStopping.best
    wait,            \* EarlyStopping.wait
    best_weights,    \* EarlyStopping.best_weights
    stop_training,   \* model.stop_training
    weights,         \* the weights the model holds: the epoch that produced them
    lowest,          \* history: the first epoch with the lowest validation loss so far
    evaluated,       \* the weights model.evaluate and model.predict ran with
    fit_pc,          \* "idle" | "training" | "trained" | "evaluated"
    le_y,            \* predict: the label strings the encoder is fitted on
    classes_,        \* predict: LabelEncoder.classes_
    pred,            \* predict: the vector model.predict returned
    predicted,       \* predict: what predict_emotion returned
    predict_pc,      \* "idle" | "start" | "fitted" | "returned" | "raised"
    x_train,         \* scaler: the training features, shared by the two runs
    x_test,          \* scaler: the test features of each run
    scaler,          \* scaler: the fitted scaler of each run
    x_train_scaled,  \* scaler: scaler.fit_transform(x_train) of each run
    x_test_scaled,   \* scaler: scaler.transform(x_test) of each run
    scaler_pc        \* of each run: "idle" | "start" | "done"

seqVars == <<mfcc, max_len, seq_out, seq_pc>>

buildVars ==
    <<builder, files, augment, test_size, idx, x, y, log, pc, err, train, test, temp_file>>

splitVars == <<split_counts, split_ratio, split_out, split_pc>>

shiftVars == <<data, shift_max, shift_direction, shift_amt, shift_out, shift_pc>>

weightVars == <<y_train_labels, y_test_labels, class_weights, class_weight_dict, weight_pc>>

fitVars == <<keras_major, epoch, val_loss, best, wait, best_weights, stop_training,
             weights, lowest, evaluated, fit_pc>>

predictVars == <<le_y, classes_, pred, predicted, predict_pc>>

scalerVars == <<x_train, x_test, scaler, x_train_scaled, x_test_scaled, scaler_pc>>

vars == <<seqVars, buildVars, splitVars, shiftVars, weightVars, fitVars, predictVars,
          scalerVars>>

(***************************************************************************)
(* Bounds of the extractor model.                                          *)
(***************************************************************************)
MaxCoef == 2        \* n_mfcc ranges over 1..MaxCoef
MaxFrames == 3      \* the frame count T ranges over 0..MaxFrames
MaxLen == 3         \* max_len ranges over 0..MaxLen

CoefValues == {0, 1}

Min(a, b) == IF a <= b THEN a ELSE b

Array(r, c, a) == [rows |-> r, cols |-> c, at |-> a]

EmptyArray == Array(0, 0, <<>>)

\* every n_mfcc x T coefficient matrix within the bounds
MfccMatrices ==
    UNION { UNION { { Array(n, T, a) : a \in [1..n -> [1..T -> CoefValues]] }
                    : T \in 0..MaxFrames }
            : n \in 1..MaxCoef }

(***************************************************************************)
(* numpy primitives used by the extractor.                                 *)
(***************************************************************************)
\* faulty variant of NpPad: the zero columns go in front of the frames
PadLeftMutant(m, pad_width) ==
    Array(m.rows, m.cols + pad_width,
          [i \in 1..m.rows |->
              [j \in 1..(m.cols + pad_width) |->
                  IF j > pad_width THEN m.at[i][j - pad_width] ELSE 0]])

\* np.pad(m, pad_width=((0,0),(0,pad_width)), mode='constant')
NpPad(m, pad_width) ==
    Array(m.rows, m.cols + pad_width,
          [i \in 1..m.rows |->
              [j \in 1..(m.cols + pad_width) |->
                  IF j <= m.cols THEN m.at[i][j] ELSE 0]])

\* m[:, :k] for k >= 0
SliceCols(m, k) ==
    Array(m.rows, Min(k, m.cols),
          [i \in 1..m.rows |-> [j \in 1..Min(k, m.cols) |-> m.at[i][j]]])

\* m.T
Transpose(m) ==
    Array(m.cols, m.rows,
          [j \in 1..m.cols |-> [i \in 1..m.rows |-> m.at[i][j]]])

\* faulty variant of PadOrTruncate: a long matrix is not cut to max_len
NoTruncateMutant(m, len) ==
    IF m.cols < len THEN NpPad(m, len - m.cols) ELSE m

\* the pad-or-truncate branch of extract_mfcc_sequence
PadOrTruncate(m, len) ==
    IF m.cols < len
    THEN NpPad(m, len - m.cols)
    ELSE SliceCols(m, len)

\* extract_mfcc_sequence, from the MFCC matrix on
extract_mfcc_sequence(m, len) == Transpose(PadOrTruncate(m, len))

(***************************************************************************)
(* The dataset builders: file names, the emotion table, clips.             *)
(*                                                                         *)
(* A base name is its hyphen-separated stem tokens and its extension;      *)
(* str.split("-") leaves the extension on the last token.                  *)
(***************************************************************************)
MaxFiles == 3       \* the corpus holds 0..MaxFiles files

NoneVal == "None"

\* emotions = {'01': 'neutral', ..., '08': 'surprised'}
emotions ==
    ("01" :> "neutral") @@ ("02" :> "calm") @@ ("03" :> "happy") @@
    ("04" :> "sad") @@ ("05" :> "angry") @@ ("06" :> "fearful") @@
    ("07" :> "disgust") @@ ("08" :> "surprised")

\* observed_emotions = list(emotions.values())
observed_emotions ==
    <<"neutral", "calm", "happy", "sad", "angry", "fearful", "disgust", "surprised">>

\* e in observed_emotions
InList(e, list) == \E k \in 1..Len(list) : list[k] = e

\* file_name.split("-")
SplitDash(name) ==
    [k \in 1..Len(name.stem) |->
        [text |-> name.stem[k],
         ext |-> IF k = Len(name.stem) THEN name.ext ELSE ""]]

\* tok is a key of the emotions dict
IsEmotionKey(tok) == tok.ext = "" /\ tok.text \in DOMAIN emotions

\* emotions.get(tok)
EmotionsGet(tok) == IF IsEmotionKey(tok) THEN emotions[tok.text] ELSE NoneVal

\* a .wav file: its base name, whether librosa.load can decode it, and the
\* number of samples of the decoded waveform
Clip(stem, readable, nsamp) ==
    [name |-> [stem |-> stem, ext |-> ".wav"], readable |-> readable, nsamp |-> nsamp]

ClipKinds ==
    { Clip(<<"03", "01", "01", "01">>, TRUE, 10),    \* neutral
      Clip(<<"03", "01", "02", "01">>, TRUE, 10),    \* calm
      Clip(<<"03", "01", "01", "02">>, FALSE, 0),    \* neutral, corrupt audio
      Clip(<<"03", "01", "02", "03">>, TRUE, 3),     \* calm, 3 samples long
      Clip(<<"03", "01", "09", "01">>, TRUE, 10),    \* code outside the table
      Clip(<<"03", "01", "05">>, TRUE, 10),          \* stem of exactly three tokens
      Clip(<<"notes", "take2">>, TRUE, 10) }         \* fewer than three tokens

Corpora == UNION { [1..n -> ClipKinds] : n \in 0..MaxFiles }

\* test_size as an exact ratio: 0.2 and 0.5
TestSizes == { [num |-> 1, den |-> 5], [num |-> 1, den |-> 2] }

NoErr == [type |-> "", at |-> ""]

Raised(type, at) == [type |-> type, at |-> at]

(***************************************************************************)
(* shift(data, shift_max=0.2): np.random.randint(int(len(data)*shift_max)) *)
(* raises ValueError when its argument is not positive.                    *)
(***************************************************************************)
ShiftMaxNum == 1
ShiftMaxDen == 5

ShiftHigh(nsamp) == (nsamp * ShiftMaxNum) \div ShiftMaxDen

RandintRaises(high) == high <= 0

Example(clip, wave) == [clip |-> clip, wave |-> wave]

\* faulty variant of Iteration: the label is appended once per clip, not once
\* per example
OneLabelPerClipMutant(error, examples, label, printed) ==
    [error |-> error,
     xs |-> examples,
     ys |-> IF examples = <<>> THEN <<>> ELSE <<label>>,
     printed |-> printed]

\* what one loop iteration does: the exception that leaves the builder (if
\* any), the examples and labels it appends, whether it printed an error
Iteration(error, examples, label, printed) ==
    [error |-> error,
     xs |-> examples,
     ys |-> [k \in 1..Len(examples) |-> label],
     printed |-> printed]

(***************************************************************************)
(* One iteration of the loop of load_data_dl over file f, the i-th file.   *)
(***************************************************************************)
\* faulty variant of DlTryBlock: no except handler, the exception leaves the loop
DlTryBlockNoExcept(f, i, aug, emotion) ==
    IF ~f.readable
    THEN Iteration(Raised("LoadError", "extract"), <<>>, emotion, FALSE)
    ELSE IF ~aug
    THEN Iteration(NoErr, <<Example(i, "original")>>, emotion, FALSE)
    ELSE IF RandintRaises(ShiftHigh(f.nsamp))
    THEN Iteration(Raised("ValueError", "shift"),
                   <<Example(i, "original"), Example(i, "noise")>>, emotion, FALSE)
    ELSE Iteration(NoErr,
                   <<Example(i, "original"), Example(i, "noise"), Example(i, "shift")>>,
                   emotion, FALSE)

\* the try block and its "except Exception" handler, which prints and goes on
DlTryBlock(f, i, aug, emotion) ==
    IF ~f.readable
    THEN \* extract_mfcc_sequence raises in librosa.load; nothing was appended
         Iteration(NoErr, <<>>, emotion, TRUE)
    ELSE IF ~aug
    THEN Iteration(NoErr, <<Example(i, "original")>>, emotion, FALSE)
    ELSE IF RandintRaises(ShiftHigh(f.nsamp))
    THEN \* shift raises after the original and the noise example were appended
         Iteration(NoErr, <<Example(i, "original"), Example(i, "noise")>>, emotion, TRUE)
    ELSE Iteration(NoErr,
                   <<Example(i, "original"), Example(i, "noise"), Example(i, "shift")>>,
                   emotion, FALSE)

load_data_dl_iteration(f, i, aug) ==
    LET toks == SplitDash(f.name) IN
    IF Len(toks) < 3
    THEN \* file_name.split("-")[2] raises IndexError, outside the try block
         Iteration(Raised("IndexError", "parse"), <<>>, NoneVal, FALSE)
    ELSE LET emotion == EmotionsGet(toks[3]) IN
         IF ~InList(emotion, observed_emotions)
         THEN Iteration(NoErr, <<>>, emotion, FALSE)
         ELSE DlTryBlock(f, i, aug, emotion)

(***************************************************************************)
(* One iteration of the loop of load_data (the classical builder), which   *)
(* has no try block and indexes the emotions dict directly.                *)
(***************************************************************************)
load_data_iteration(f, i, aug) ==
    LET toks == SplitDash(f.name) IN
    IF Len(toks) < 3
    THEN Iteration(Raised("IndexError", "parse"), <<>>, NoneVal, FALSE)
    ELSE IF ~IsEmotionKey(toks[3])
    THEN \* emotions[...] raises KeyError
         Iteration(Raised("KeyError", "lookup"), <<>>, NoneVal, FALSE)
    ELSE LET emotion == emotions[toks[3].text] IN
         IF ~InList(emotion, observed_emotions)
         THEN Iteration(NoErr, <<>>, emotion, FALSE)
         ELSE IF ~f.readable
         THEN \* extract_feature raises in librosa.load
              Iteration(Raised("LoadError", "extract"), <<>>, emotion, FALSE)
         ELSE IF ~aug
         THEN Iteration(NoErr, <<Example(i, "original")>>, emotion, FALSE)
         ELSE IF RandintRaises(ShiftHigh(f.nsamp))
         THEN \* the "noise" feature is extracted from the file itself
              Iteration(Raised("ValueError", "shift"),
                        <<Example(i, "original"), Example(i, "original")>>,
                        emotion, FALSE)
         ELSE Iteration(NoErr,
                        <<Example(i, "original"), Example(i, "original"),
                          Example(i, "shift")>>,
                        emotion, FALSE)

(***************************************************************************)
(* sklearn's train_test_split on the per-class example counts.  An outcome *)
(* is the exception it raises, or the number of examples of each class it  *)
(* puts in train and in test.  The seeded shuffles and the seeded choice   *)
(* among equal remainders are nondeterministic here.                       *)
(***************************************************************************)
RECURSIVE SumOver(_, _)
SumOver(f, S) ==
    IF S = {} THEN 0
    ELSE LET c == CHOOSE c \in S : TRUE IN f[c] + SumOver(f, S \ {c})

Total(f) == SumOver(f, DOMAIN f)

CeilDiv(a, b) == (a + b - 1) \div b

\* np.unique(labels) with the count of each: the classes present
ClassCounts(labels) ==
    [c \in { labels[k] : k \in 1..Len(labels) } |->
        Cardinality({ k \in 1..Len(labels) : labels[k] = c })]

SplitError(type) == [error |-> type, train |-> [c \in {} |-> 0], test |-> [c \in {} |-> 0]]

SplitCounts(tr, te) == [error |-> "", train |-> tr, test |-> te]

\* _approximate_mode(class_counts, n_draws, rng): the proportional share of
\* each class rounded down, the draws left over going to the classes with
\* the largest remainders, chosen at random among equal ones
ApproximateMode(class_counts, n_draws) ==
    LET C == DOMAIN class_counts
        total == Total(class_counts)
        floored == [c \in C |-> (class_counts[c] * n_draws) \div total]
        remainder == [c \in C |-> (class_counts[c] * n_draws) % total]
        need_to_add == n_draws - Total(floored)
    IN { [c \in C |-> floored[c] + (IF c \in B THEN 1 ELSE 0)] :
           B \in { B \in SUBSET C :
                     /\ Cardinality(B) = need_to_add
                     /\ \A b \in B : \A d \in C \ B : remainder[b] >= remainder[d] } }

\* every way to put n_test of the examples in test, whatever their class
AnyAllocation(class_counts, n_train, n_test) ==
    { SplitCounts([c \in DOMAIN class_counts |-> class_counts[c] - te[c]], te) :
        te \in { te \in [DOMAIN class_counts -> 0..n_test] :
                   /\ \A c \in DOMAIN class_counts : te[c] <= class_counts[c]
                   /\ Total(te) = n_test } }

\* ShuffleSplit: a random permutation, its first n_test positions the test set
ShuffleSplit(class_counts, n_train, n_test) ==
    AnyAllocation(class_counts, n_train, n_test)

\* faulty variant of StratifiedShuffleSplit: stratify= is ignored
UnstratifiedMutant(class_counts, n_train, n_test) ==
    AnyAllocation(class_counts, n_train, n_test)

\* StratifiedShuffleSplit
StratifiedShuffleSplit(class_counts, n_train, n_test) ==
    LET C == DOMAIN class_counts IN
    IF \E c \in C : class_counts[c] < 2
    THEN {SplitError("ValueError")}     \* the least populated class has 1 member
    ELSE IF n_train < Cardinality(C) \/ n_test < Cardinality(C)
    THEN {SplitError("ValueError")}
    ELSE { SplitCounts(n_i, [c \in C |-> class_counts[c] - n_i[c]]) :
             n_i \in ApproximateMode(class_counts, n_train) }

\* faulty variant of train_test_split: test_size taken as the share of train
TrainSizeMutant(class_counts, r, stratify) ==
    LET n_samples == Total(class_counts)
        n_train == CeilDiv(r.num * n_samples, r.den)
        n_test == n_samples - n_train
    IN IF n_train = 0
       THEN {SplitError("ValueError")}
       ELSE IF stratify
       THEN StratifiedShuffleSplit(class_counts, n_train, n_test)
       ELSE ShuffleSplit(class_counts, n_train, n_test)

\* train_test_split(..., test_size=r, stratify=labels or None)
train_test_split(class_counts, r, stratify) ==
    LET n_samples == Total(class_counts)
        n_test == CeilDiv(r.num * n_samples, r.den)
        n_train == n_samples - n_test
    IN IF n_train = 0
       THEN {SplitError("ValueError")}  \* the resulting train set will be empty
       ELSE IF stratify
       THEN StratifiedShuffleSplit(class_counts, n_train, n_test)
       ELSE ShuffleSplit(class_counts, n_train, n_test)

\* the partitions of the positions of labels that have the outcome's counts
Partitions(labels, outcome) ==
    { te \in SUBSET (1..Len(labels)) :
        \A c \in DOMAIN outcome.test :
            Cardinality({ k \in te : labels[k] = c }) = outcome.test[c] }

(***************************************************************************)
(* Each specification runs one part of the pipeline; the variables of the  *)
(* other parts keep these values.                                          *)
(***************************************************************************)
\* the weights of a model after epoch e (0: as built), with the validation
\* loss measured on them (-1: not measured)
Snapshot(e, loss) == [epoch |-> e, val_loss |-> loss]

\* None where weights are expected
NoSnapshot == Snapshot(-1, -1)

SeqIdle ==
    /\ mfcc = EmptyArray
    /\ max_len = 0
    /\ seq_out = EmptyArray
    /\ seq_pc = "idle"

BuildIdle ==
    /\ builder = "none"
    /\ files = <<>>
    /\ augment = FALSE
    /\ test_size = [num |-> 1, den |-> 5]
    /\ idx = 0
    /\ x = <<>>
    /\ y = <<>>
    /\ log = <<>>
    /\ pc = "idle"
    /\ err = NoErr
    /\ train = {}
    /\ test = {}
    /\ temp_file = FALSE

SplitIdle ==
    /\ split_counts = [c \in {} |-> 0]
    /\ split_ratio = [num |-> 1, den |-> 5]
    /\ split_out = SplitError("")
    /\ split_pc = "idle"

ShiftIdle ==
    /\ data = <<>>
    /\ shift_max = [num |-> 1, den |-> 5]
    /\ shift_direction = "both"
    /\ shift_amt = 0
    /\ shift_out = <<>>
    /\ shift_pc = "idle"

WeightIdle ==
    /\ y_train_labels = [c \in {} |-> 0]
    /\ y_test_labels = [c \in {} |-> 0]
    /\ class_weights = <<>>
    /\ class_weight_dict = [k \in {} |-> 0]
    /\ weight_pc = "idle"

FitIdle ==
    /\ keras_major = 2
    /\ epoch = 0
    /\ val_loss = -1
    /\ best = 0
    /\ wait = 0
    /\ best_weights = NoSnapshot
    /\ stop_training = FALSE
    /\ weights = NoSnapshot
    /\ lowest = NoSnapshot
    /\ evaluated = NoSnapshot
    /\ fit_pc = "idle"

PredictIdle ==
    /\ le_y = {}
    /\ classes_ = <<>>
    /\ pred = <<>>
    /\ predicted = NoneVal
    /\ predict_pc = "idle"

ScalerIdle ==
    /\ x_train = <<>>
    /\ x_test = <<>>
    /\ scaler = <<>>
    /\ x_train_scaled = <<>>
    /\ x_test_scaled = <<>>
    /\ scaler_pc = <<>>

(***************************************************************************)
(* Specification of the extractor: every matrix and max_len within the     *)
(* bounds, then the one call.                                              *)
(***************************************************************************)
SeqInit ==
    /\ mfcc \in MfccMatrices
    /\ max_len \in 0..MaxLen
    /\ seq_out = EmptyArray
    /\ seq_pc = "start"
    /\ BuildIdle
    /\ SplitIdle
    /\ ShiftIdle /\ WeightIdle /\ FitIdle /\ PredictIdle /\ ScalerIdle

ExtractMfccSequence ==
    /\ seq_pc = "start"
    /\ seq_out' = extract_mfcc_sequence(mfcc, max_len)
    /\ seq_pc' = "done"
    /\ UNCHANGED <<mfcc, max_len>>
    /\ UNCHANGED <<buildVars, splitVars, shiftVars, weightVars, fitVars, predictVars,
                   scalerVars>>

SeqNext == ExtractMfccSequence

SpecSeq == SeqInit /\ [][SeqNext]_vars

\* C1: for every frame count T >= 0 and every n_mfcc, extract_mfcc_sequence
\* returns an array of shape exactly (max_len, n_mfcc).
C1_ShapeIsMaxLenByNMfcc ==
    seq_pc = "done" =>
        /\ seq_out.rows = max_len
        /\ seq_out.cols = mfcc.rows
        /\ DOMAIN seq_out.at = 1..max_len
        /\ \A t \in 1..max_len : DOMAIN seq_out.at[t] = 1..mfcc.rows

\* a clip longer than max_len went through the extractor
C1_Witness ==
    /\ seq_pc = "done"
    /\ mfcc.cols > max_len
    /\ max_len > 0
    /\ seq_out.rows = max_len

\* C2: rows 0..min(T,max_len)-1 of the result are the first min(T,max_len)
\* frames, unchanged and in time order; when T < max_len every later row is
\* all zeros; frames from index max_len on are dropped.
C2_FramesKeptThenZeroPadded ==
    seq_pc = "done" =>
        /\ \A t \in 1..Min(mfcc.cols, max_len) : \A c \in 1..mfcc.rows :
              seq_out.at[t][c] = mfcc.at[c][t]
        /\ \A t \in (mfcc.cols + 1)..max_len : \A c \in 1..mfcc.rows :
              seq_out.at[t][c] = 0
        /\ seq_out.rows = max_len

\* a clip shorter than max_len, with a non-zero coefficient in its last frame,
\* was padded
C2_Witness ==
    /\ seq_pc = "done"
    /\ 0 < mfcc.cols
    /\ mfcc.cols < max_len
    /\ mfcc.at[1][mfcc.cols] # 0
    /\ seq_out.at[mfcc.cols][1] # 0
    /\ seq_out.at[max_len][1] = 0
(***************************************************************************)
(* Specification of the dataset builders: every corpus within the bounds,  *)
(* either builder, with and without augmentation; one step per loop        *)
(* iteration, then the encoding and the split that end the builder.        *)
(***************************************************************************)
Init ==
    /\ SeqIdle
    /\ SplitIdle
    /\ ShiftIdle /\ WeightIdle /\ FitIdle /\ PredictIdle /\ ScalerIdle
    /\ builder \in {"load_data", "load_data_dl"}
    /\ files \in Corpora
    /\ augment \in BOOLEAN
    /\ test_size \in TestSizes
    /\ idx = 0
    /\ x = <<>>
    /\ y = <<>>
    /\ log = <<>>
    /\ pc = "loop"
    /\ err = NoErr
    /\ train = {}
    /\ test = {}
    /\ temp_file = FALSE

\* the effect of one iteration on the builder's state
Iterate(it) ==
    /\ x' = x \o it.xs
    /\ y' = y \o it.ys
    /\ log' = IF it.printed THEN Append(log, idx + 1) ELSE log
    /\ IF it.error = NoErr
       THEN idx' = idx + 1 /\ pc' = pc /\ err' = err
       ELSE idx' = idx /\ pc' = "raised" /\ err' = it.error
    /\ UNCHANGED <<builder, files, augment, test_size, train, test>>
    /\ UNCHANGED <<seqVars, splitVars, shiftVars, weightVars, fitVars, predictVars,
                 scalerVars>>

\* the end of a builder: it raises, or returns one of the partitions
Finish(outcomes, at) ==
    /\ \E o \in outcomes :
          IF o.error # ""
          THEN /\ pc' = "raised"
               /\ err' = Raised(o.error, at)
               /\ UNCHANGED <<train, test>>
          ELSE \E te \in Partitions(y, o) :
                  /\ test' = te
                  /\ train' = (1..Len(y)) \ te
                  /\ pc' = "returned"
                  /\ err' = err
    /\ UNCHANGED <<builder, files, augment, test_size, idx, x, y, log, temp_file>>
    /\ UNCHANGED <<seqVars, splitVars, shiftVars, weightVars, fitVars, predictVars,
                 scalerVars>>

LoadDataDlStep ==
    /\ builder = "load_data_dl"
    /\ pc = "loop"
    /\ idx < Len(files)
    /\ Iterate(load_data_dl_iteration(files[idx + 1], idx + 1, augment))
    /\ UNCHANGED temp_file

\* le.fit_transform, to_categorical (np.max of an empty array raises
\* ValueError), then train_test_split(..., stratify=y)
LoadDataDlSplit ==
    /\ builder = "load_data_dl"
    /\ pc = "loop"
    /\ idx = Len(files)
    /\ IF Len(y) = 0
       THEN Finish({SplitError("ValueError")}, "encode")
       ELSE Finish(train_test_split(ClassCounts(y), test_size, TRUE), "split")

LoadDataStep ==
    /\ builder = "load_data"
    /\ pc = "loop"
    /\ idx < Len(files)
    /\ LET it == load_data_iteration(files[idx + 1], idx + 1, augment)
       IN /\ Iterate(it)
          \* an iteration that appended the shifted example went through
          \* write_wav and os.remove
          /\ temp_file' = IF Len(it.xs) = 3 THEN FALSE ELSE temp_file

\* train_test_split(np.array(x), y, test_size=test_size, random_state=9)
LoadDataSplit ==
    /\ builder = "load_data"
    /\ pc = "loop"
    /\ idx = Len(files)
    /\ Finish(train_test_split(ClassCounts(y), test_size, FALSE), "split")

(***************************************************************************)
(* Iterations in which a statement of the augmentation raises although the *)
(* clip was decoded before (an I/O failure, or librosa.output.write_wav,   *)
(* which librosa 0.8 removed).  Which statement raises is a free choice.     *)
(***************************************************************************)
\* load_data_dl: librosa.load of line 178, the MFCC of the noisy waveform
\* of line 179, the MFCC of the shifted waveform of line 189
DlFaults == {"reload", "noise", "shift_mfcc"}

\* the examples a clip has appended when the statement raises
AppendedBefore(fault) == IF fault \in {"reload", "noise"} THEN 1 ELSE 2

\* the statement is reached in the iteration over file f
FaultReached(it, aug, fault) ==
    /\ aug
    /\ Len(it.xs) >= 2
    /\ AppendedBefore(fault) = 2 => (it.error = NoErr /\ Len(it.xs) = 3)

\* faulty variant of load_data_dl_fault: the handler also drops the examples
\* the clip had appended
RollbackMutant(f, i, aug, fault) ==
    LET it == load_data_dl_iteration(f, i, aug)
    IN Iteration(NoErr, <<>>, it.ys[1], TRUE)

\* the iteration of load_data_dl in which the statement raises: the except
\* handler prints, the examples appended before it stay
load_data_dl_fault(f, i, aug, fault) ==
    LET it == load_data_dl_iteration(f, i, aug)
    IN Iteration(NoErr, SubSeq(it.xs, 1, AppendedBefore(fault)), it.ys[1], TRUE)

\* load_data: librosa.load of line 114, extract_feature of line 116,
\* write_wav of line 122 (leaving no file, or a part of it), extract_feature
\* of temp_shift.wav of line 123
LoadDataFaults == {"reload", "noise", "write", "write_partial", "extract_shift"}

\* the iteration of load_data in which the statement raises: the exception
\* leaves load_data; whether temp_shift.wav exists then
load_data_fault(f, i, aug, fault) ==
    LET it == load_data_iteration(f, i, aug)
    IN [it |-> Iteration(Raised("Exception", IF fault = "write_partial" THEN "write" ELSE fault),
                         SubSeq(it.xs, 1, AppendedBefore(fault)), it.ys[1], FALSE),
        temp_file |-> fault \in {"write_partial", "extract_shift"}]

LoadDataDlStepFault ==
    /\ builder = "load_data_dl"
    /\ pc = "loop"
    /\ idx < Len(files)
    /\ \E fault \in DlFaults :
          /\ FaultReached(load_data_dl_iteration(files[idx + 1], idx + 1, augment),
                          augment, fault)
          /\ Iterate(load_data_dl_fault(files[idx + 1], idx + 1, augment, fault))
    /\ UNCHANGED temp_file

LoadDataStepFault ==
    /\ builder = "load_data"
    /\ pc = "loop"
    /\ idx < Len(files)
    /\ \E fault \in LoadDataFaults :
          /\ FaultReached(load_data_iteration(files[idx + 1], idx + 1, augment),
                          augment, fault)
          /\ LET o == load_data_fault(files[idx + 1], idx + 1, augment, fault)
             IN Iterate(o.it) /\ temp_file' = o.temp_file

Next ==
    \/ LoadDataDlStep
    \/ LoadDataDlStepFault
    \/ LoadDataDlSplit
    \/ LoadDataStep
    \/ LoadDataStepFault
    \/ LoadDataSplit

Spec == Init /\ [][Next]_vars

(***************************************************************************)
(* Specification of the stratified split alone, on larger class counts     *)
(* than a modelled corpus gives: train_test_split(x, y_cat, test_size=r,   *)
(* stratify=y) as load_data_dl calls it.                                   *)
(***************************************************************************)
MaxCount == 20      \* a class holds 0..MaxCount examples (0: the class is absent)

SplitClasses == {"angry", "calm", "happy"}

\* 0.1, 0.2, 0.25 and 0.5
SplitRatios ==
    { [num |-> 1, den |-> 10], [num |-> 1, den |-> 5],
      [num |-> 1, den |-> 4], [num |-> 1, den |-> 2] }

\* the count of each class that occurs among the labels
PresentCounts(cnt) == [c \in { c \in DOMAIN cnt : cnt[c] > 0 } |-> cnt[c]]

SplitInit ==
    /\ SeqIdle
    /\ BuildIdle
    /\ ShiftIdle /\ WeightIdle /\ FitIdle /\ PredictIdle /\ ScalerIdle
    /\ \E cnt \in [SplitClasses -> 0..MaxCount] : split_counts = PresentCounts(cnt)
    /\ split_ratio \in SplitRatios
    /\ split_out = SplitError("")
    /\ split_pc = "start"

StratifiedTrainTestSplit ==
    /\ split_pc = "start"
    /\ split_out' \in train_test_split(split_counts, split_ratio, TRUE)
    /\ split_pc' = "done"
    /\ UNCHANGED <<split_counts, split_ratio>>
    /\ UNCHANGED <<seqVars, buildVars, shiftVars, weightVars, fitVars, predictVars,
                 scalerVars>>

SplitNext == StratifiedTrainTestSplit

SpecSplit == SplitInit /\ [][SplitNext]_vars

(***************************************************************************)
(* Claims about the dataset builders.                                      *)
(***************************************************************************)
\* the base name has the emotion token and the token is a code of the table
Recognized(f) ==
    /\ Len(SplitDash(f.name)) >= 3
    /\ IsEmotionKey(SplitDash(f.name)[3])

LabelOf(f) == emotions[SplitDash(f.name)[3].text]

Corrupt == { k \in 1..Len(files) : ~files[k].readable }

Printed == { log[k] : k \in 1..Len(log) }

\* positions of x that hold an example of the k-th file
ExamplesOf(k) == { p \in 1..Len(x) : x[p].clip = k }

\* the exception left the loop (not the encoding or the split after it)
RaisedInLoop == pc = "raised" /\ err.at \in {"parse", "lookup", "extract", "shift"}

\* C3: in load_data_dl a clip whose audio cannot be decoded is skipped without
\* raising and the loop goes on; with N recognized clips, one of them corrupt,
\* and augmentation off the dataset holds exactly N-1 examples.
C3_CorruptClipSkippedByLoadDataDl ==
    ( /\ builder = "load_data_dl"
      /\ ~augment
      /\ \A k \in 1..Len(files) : Recognized(files[k])
      /\ Cardinality(Corrupt) = 1 )
    =>
    /\ ~RaisedInLoop
    /\ \A k \in Corrupt : k <= idx => (ExamplesOf(k) = {} /\ k \in Printed)
    /\ Len(x) = idx - Cardinality({ k \in Corrupt : k <= idx })
    /\ idx = Len(files) => Len(x) = Len(files) - 1

\* three recognized clips, the first corrupt: the loop went on and the split
\* returned the two others
C3_Witness ==
    /\ builder = "load_data_dl"
    /\ ~augment
    /\ Len(files) = 3
    /\ \A k \in 1..3 : Recognized(files[k])
    /\ Corrupt = {1}
    /\ pc = "returned"
    /\ Len(x) = 2
    /\ x[1].clip = 2

\* C4: in load_data an unreadable or corrupt audio file is caught and skipped
\* and does not abort the build.
C4_CorruptClipSkippedByLoadData ==
    builder = "load_data" => ~(pc = "raised" /\ err.at = "extract")

\* the token at index 2 is a code, and not one of the table
UnknownCode(f) ==
    /\ Len(SplitDash(f.name)) >= 3
    /\ SplitDash(f.name)[3].ext = ""
    /\ SplitDash(f.name)[3].text \notin DOMAIN emotions

\* C5: in both builders a clip whose emotion code is not in the table
\* contributes no example and raises no error: the build goes on.
C5_UnknownCodeExcluded ==
    /\ ~(pc = "raised" /\ err.at = "lookup" /\ UnknownCode(files[idx + 1]))
    /\ \A p \in 1..Len(x) : ~UnknownCode(files[x[p].clip])

\* C6: a file name with fewer than three hyphen-delimited tokens is silently
\* excluded: the builder does not raise.
C6_MalformedNameExcluded ==
    /\ ~(pc = "raised" /\ err.at = "parse")
    /\ \A p \in 1..Len(x) : Len(files[x[p].clip].name.stem) >= 3

\* the clips load_data_dl has processed without an error
DlProcessedOk == { k \in 1..idx : Recognized(files[k]) /\ k \notin Printed }

DlVariants == IF augment THEN <<"original", "noise", "shift">> ELSE <<"original">>

\* C7: in load_data_dl every included clip processed without error contributes
\* exactly three consecutive examples (original, noise, shift) with its own
\* label when augment is on, exactly one when it is off, so the dataset size
\* is 3 times (1 times) the number of such clips.
C7_ThreeExamplesPerClip ==
    (builder = "load_data_dl" /\ idx = Len(files))
    =>
    /\ \A k \in DlProcessedOk :
          \E p \in 1..Len(x) :
              /\ ExamplesOf(k) = p..(p + Len(DlVariants) - 1)
              /\ \A v \in 1..Len(DlVariants) :
                    /\ x[p + v - 1].wave = DlVariants[v]
                    /\ y[p + v - 1] = LabelOf(files[k])
    /\ Len(x) = Len(DlVariants) * Cardinality(DlProcessedOk)

\* C8: after load_data_dl with augmentation, all examples of one clip are on
\* the same side of the split.
C8_NoSiblingsAcrossSplit ==
    (builder = "load_data_dl" /\ augment /\ pc = "returned")
    =>
    \A p \in 1..Len(x) : \A q \in 1..Len(x) :
        x[p].clip = x[q].clip => (p \in test <=> q \in test)

\* number of examples with label c among the positions S
CountIn(S, c) == Cardinality({ p \in S : y[p] = c })

\* C10: load_data performs a stratified split: each class has in train its
\* proportional share of the training set, rounded down or up.
C10_LoadDataSplitStratified ==
    (builder = "load_data" /\ pc = "returned")
    =>
    \A c \in DOMAIN ClassCounts(y) :
        LET share == ClassCounts(y)[c] * Cardinality(train) IN
        /\ CountIn(train, c) >= share \div Len(y)
        /\ CountIn(train, c) <= CeilDiv(share, Len(y))

(***************************************************************************)
(* Claims about the stratified split.                                      *)
(***************************************************************************)
\* C9 as stated: for every ratio r and class, the number of the class's
\* examples in test is within one example of r times the class's count.
C9_TestCountWithinOne ==
    (split_pc = "done" /\ split_out.error = "")
    =>
    \A c \in DOMAIN split_counts :
        LET d == split_ratio.den * split_out.test[c] - split_ratio.num * split_counts[c]
        IN  -split_ratio.den <= d /\ d <= split_ratio.den

\* C9 amended: the number is more than r times the count minus one and less
\* than r times the count plus two; train and test hold the class between them.
C9_TestCountWithinTwo ==
    (split_pc = "done" /\ split_out.error = "")
    =>
    \A c \in DOMAIN split_counts :
        LET d == split_ratio.den * split_out.test[c] - split_ratio.num * split_counts[c]
        IN  /\ -split_ratio.den < d
            /\ d < 2 * split_ratio.den
            /\ split_out.train[c] + split_out.test[c] = split_counts[c]

\* a returned split in which a class has more than r times its count plus one
\* in test
C9_Witness ==
    /\ split_pc = "done"
    /\ split_out.error = ""
    /\ \E c \in DOMAIN split_counts :
          split_ratio.den * split_out.test[c]
              > split_ratio.num * split_counts[c] + split_ratio.den

(***************************************************************************)
(* The end-to-end scenario of load_data_dl: a corpus of 80 readable clips  *)
(* with well-formed names, 10 for each of the 8 emotion codes, in the two  *)
(* orders a glob may list them.  The partitions of 80 examples are too     *)
(* many to enumerate, so the split is kept as the number of examples of    *)
(* each class it puts in train and in test (split_out).                    *)
(***************************************************************************)
EmotionCodes == <<"01", "02", "03", "04", "05", "06", "07", "08">>

Takes == <<"01", "02", "03", "04", "05", "06", "07", "08", "09", "10">>

ScenarioClip(code, take) == Clip(<<"03", "01", code, take>>, TRUE, 10)

\* the clips of one emotion follow each other
GroupedCorpus ==
    [k \in 1..(Len(EmotionCodes) * Len(Takes)) |->
        ScenarioClip(EmotionCodes[((k - 1) \div Len(Takes)) + 1],
                     Takes[((k - 1) % Len(Takes)) + 1])]

\* the emotions alternate
InterleavedCorpus ==
    [k \in 1..(Len(EmotionCodes) * Len(Takes)) |->
        ScenarioClip(EmotionCodes[((k - 1) % Len(EmotionCodes)) + 1],
                     Takes[((k - 1) \div Len(EmotionCodes)) + 1])]

ScenarioCorpora == {GroupedCorpus, InterleavedCorpus}

ScenarioInit ==
    /\ SeqIdle
    /\ SplitIdle
    /\ ShiftIdle /\ WeightIdle /\ FitIdle /\ PredictIdle /\ ScalerIdle
    /\ builder = "load_data_dl"
    /\ files \in ScenarioCorpora
    /\ augment \in BOOLEAN
    /\ test_size \in TestSizes
    /\ idx = 0
    /\ x = <<>>
    /\ y = <<>>
    /\ log = <<>>
    /\ pc = "loop"
    /\ err = NoErr
    /\ train = {}
    /\ test = {}
    /\ temp_file = FALSE

\* le.fit_transform, to_categorical, train_test_split(..., stratify=y) and
\* the return, the partitions kept as their sizes per class
LoadDataDlSplitSizes ==
    /\ builder = "load_data_dl"
    /\ pc = "loop"
    /\ idx = Len(files)
    /\ \E o \in (IF Len(y) = 0
                 THEN {SplitError("ValueError")}
                 ELSE train_test_split(ClassCounts(y), test_size, TRUE)) :
          /\ split_out' = o
          /\ pc' = IF o.error = "" THEN "returned" ELSE "raised"
          /\ err' = IF o.error = "" THEN err
                    ELSE Raised(o.error, IF Len(y) = 0 THEN "encode" ELSE "split")
    /\ UNCHANGED <<builder, files, augment, test_size, idx, x, y, log, train, test,
                   temp_file>>
    /\ UNCHANGED <<split_counts, split_ratio, split_pc>>
    /\ UNCHANGED <<seqVars, shiftVars, weightVars, fitVars, predictVars, scalerVars>>

ScenarioNext == LoadDataDlStep \/ LoadDataDlSplitSizes

SpecScenario == ScenarioInit /\ [][ScenarioNext]_vars

\* the call of the scenario: load_data_dl(test_size=0.2, augment=False)
ScenarioCall ==
    /\ builder = "load_data_dl"
    /\ files \in ScenarioCorpora
    /\ test_size = [num |-> 1, den |-> 5]
    /\ ~augment

\* C11: over the corpus of 80 clips, 10 per emotion code,
\* load_data_dl(test_size=0.2, augment=False) does not raise, and what it
\* returns has exactly 64 training and 16 test examples, each of the 8
\* emotions occurring in the training set and in the test set.
C11_ScenarioSplit64And16 ==
    ScenarioCall =>
        /\ pc # "raised"
        /\ pc = "returned" =>
              /\ Total(split_out.train) = 64
              /\ Total(split_out.test) = 16
              /\ \A k \in 1..Len(observed_emotions) :
                    /\ observed_emotions[k] \in DOMAIN split_out.train
                    /\ split_out.train[observed_emotions[k]] > 0
                    /\ observed_emotions[k] \in DOMAIN split_out.test
                    /\ split_out.test[observed_emotions[k]] > 0

C11_Witness ==
    /\ ScenarioCall
    /\ pc = "returned"
    /\ Len(x) = 80
    /\ Total(split_out.train) = 64

(***************************************************************************)
(* Claims about an empty dataset.                                          *)
(***************************************************************************)
\* load_data_dl went through the whole file list and no example was kept
EmptyDataset ==
    /\ builder = "load_data_dl"
    /\ idx = Len(files)
    /\ Len(x) = 0
    /\ pc # "loop"

\* C12: when no example survives discovery and filtering, load_data_dl
\* returns no train/test containers: it raises a configuration error before
\* the label encoding, the one-hot encoding and the split are reached.
C12_EmptyDatasetIsConfigurationError ==
    EmptyDataset => pc = "raised" /\ err.at \notin {"encode", "split"}

C12_Witness ==
    /\ EmptyDataset
    /\ pc = "raised"
    /\ err = Raised("ValueError", "encode")

(***************************************************************************)
(* Class weights: y_train_labels = np.argmax(y_train, axis=1), then        *)
(* compute_class_weight('balanced', classes=np.unique(y_train_labels),     *)
(* y=y_train_labels) and dict(enumerate(class_weights)).  The labels are   *)
(* kept as the number of examples of each class index (np.bincount); a     *)
(* weight is the exact quotient [num, den] of the division the code does   *)
(* in floating point.                                                      *)
(***************************************************************************)
MaxWeightCount == 4     \* a class index holds 0..MaxWeightCount examples

WeightClasses == 0..2

Rat(n, d) == [num |-> n, den |-> d]

RatEq(a, b) == a.num * b.den = b.num * a.den

RatLess(a, b) == a.num * b.den < b.num * a.den

RECURSIVE SortedSeq(_)
SortedSeq(S) ==
    IF S = {} THEN <<>>
    ELSE LET least == CHOOSE m \in S : \A n \in S : m <= n
         IN <<least>> \o SortedSeq(S \ {least})

\* np.unique of the labels: the class indices that occur, ascending
NpUnique(counts) == SortedSeq(DOMAIN counts)

\* faulty variant of compute_class_weight: divides by the 8 classes of the
\* label table instead of the classes found in y
AllClassesMutant(classes, counts) ==
    [k \in 1..Len(classes) |->
        Rat(Total(counts), Len(observed_emotions) * counts[classes[k]])]

\* compute_class_weight('balanced', classes=classes, y=y):
\* len(y) / (len(le.classes_) * np.bincount(y_ind)), indexed by classes
compute_class_weight(classes, counts) ==
    [k \in 1..Len(classes) |->
        Rat(Total(counts), Cardinality(DOMAIN counts) * counts[classes[k]])]

\* dict(enumerate(array))
DictEnumerate(array) == [k \in 0..(Len(array) - 1) |-> array[k + 1]]

\* the label counts of the spec's example: {a: 300, b: 300, c: 150}
ExampleCounts == (0 :> 300) @@ (1 :> 300) @@ (2 :> 150)

WeightInit ==
    /\ SeqIdle /\ BuildIdle /\ SplitIdle
    /\ ShiftIdle /\ FitIdle /\ PredictIdle /\ ScalerIdle
    /\ \/ \E cnt \in [WeightClasses -> 0..MaxWeightCount] :
             \* a split never returns an empty training set
             /\ \E c \in WeightClasses : cnt[c] > 0
             /\ y_train_labels = PresentCounts(cnt)
       \/ y_train_labels = ExampleCounts
    /\ \E cnt \in [WeightClasses -> 0..MaxWeightCount] :
          y_test_labels = PresentCounts(cnt)
    /\ class_weights = <<>>
    /\ class_weight_dict = [k \in {} |-> 0]
    /\ weight_pc = "start"

ComputeClassWeights ==
    /\ weight_pc = "start"
    /\ class_weights' = compute_class_weight(NpUnique(y_train_labels), y_train_labels)
    /\ class_weight_dict' = DictEnumerate(class_weights')
    /\ weight_pc' = "done"
    /\ UNCHANGED <<y_train_labels, y_test_labels>>
    /\ UNCHANGED <<seqVars, buildVars, splitVars, shiftVars, fitVars, predictVars,
                 scalerVars>>

WeightNext == ComputeClassWeights

SpecWeights == WeightInit /\ [][WeightNext]_vars

\* the weight computed for class index c of the training labels
WeightOf(c) ==
    class_weights[CHOOSE k \in 1..Len(class_weights) : NpUnique(y_train_labels)[k] = c]

\* weight * count, as a quotient
TimesCount(w, count) == Rat(w.num * count, w.den)

\* C13: the class weights are a function of the training labels alone:
\* weight[c] = N / (K * count[c]), N the number of training examples and K
\* the number of distinct classes among them; so weight[c] * count[c] is
\* the same for all classes, a rarer class has a strictly larger weight,
\* and for the counts {300, 300, 150} the third weight is exactly twice
\* each of the other two.
C13_BalancedClassWeights ==
    weight_pc = "done" =>
        LET count == y_train_labels
            C == DOMAIN count
            N == Total(count)
            K == Cardinality(C)
        IN /\ Len(class_weights) = K
           /\ \A c \in C : RatEq(WeightOf(c), Rat(N, K * count[c]))
           /\ \A c, d \in C :
                 /\ RatEq(TimesCount(WeightOf(c), count[c]),
                          TimesCount(WeightOf(d), count[d]))
                 /\ count[c] < count[d] => RatLess(WeightOf(d), WeightOf(c))
           /\ count = ExampleCounts =>
                 /\ RatEq(WeightOf(2), TimesCount(WeightOf(0), 2))
                 /\ RatEq(WeightOf(2), TimesCount(WeightOf(1), 2))

C13_Witness ==
    /\ weight_pc = "done"
    /\ y_train_labels = ExampleCounts
    /\ class_weights = <<Rat(750, 900), Rat(750, 900), Rat(750, 450)>>
    /\ DOMAIN y_test_labels # {}

(***************************************************************************)
(* Training of the sequence model: model.fit(..., epochs=60,               *)
(* callbacks=[EarlyStopping(monitor='val_loss', patience=10,               *)
(* restore_best_weights=True)]), then model.evaluate and model.predict.    *)
(* One step is one epoch with the callback that ends it; the validation    *)
(* loss of an epoch is any value of Losses.  The weights a model holds are *)
(* named by the epoch that produced them, with the validation loss         *)
(* measured on them.  EarlyStopping restores the best weights when its     *)
(* patience stops the training; Keras 3 moved the restoring to             *)
(* on_train_end, where it also runs after the last epoch.                  *)
(***************************************************************************)
epochs == 60

patience == 10

MaxLoss == 5

Losses == 0..MaxLoss

KerasVersions == {2, 3}

\* np.inf, above every loss
Inf == MaxLoss + 1

\* faulty variant of _is_improvement: np.less_equal as the monitor_op
LessEqualMutant(current, reference) == current <= reference

\* EarlyStopping._is_improvement: np.less(current - min_delta, reference),
\* min_delta 0, the first reference np.inf
IsImprovement(current, reference) == current < reference

\* EarlyStopping.on_epoch_end(e, logs) after the epoch of index e (from 0)
\* left the model with the weights trained: the callback's fields, the
\* model's stop_training and the weights the model holds afterwards
on_epoch_end(e, current, trained) ==
    LET kept == IF best_weights = NoSnapshot THEN trained ELSE best_weights
        improved == IsImprovement(current, best)
        stop == ~improved /\ wait + 1 >= patience /\ e > 0
    IN [best |-> IF improved THEN current ELSE best,
        best_weights |-> IF improved THEN trained ELSE kept,
        wait |-> IF improved THEN 0 ELSE wait + 1,
        stop_training |-> stop,
        weights |-> IF stop /\ keras_major = 2 THEN kept ELSE trained]

\* EarlyStopping.on_train_end: the weights the model holds afterwards
on_train_end(held, kept) ==
    IF keras_major = 3 /\ kept # NoSnapshot THEN kept ELSE held

FitInit ==
    /\ SeqIdle /\ BuildIdle /\ SplitIdle
    /\ ShiftIdle /\ WeightIdle /\ PredictIdle /\ ScalerIdle
    /\ keras_major \in KerasVersions
    /\ epoch = 0
    /\ val_loss = -1
    /\ best = Inf
    /\ wait = 0
    /\ best_weights = NoSnapshot
    /\ stop_training = FALSE
    /\ weights = Snapshot(0, -1)
    /\ lowest = NoSnapshot
    /\ evaluated = NoSnapshot
    /\ fit_pc = "training"

\* one epoch of model.fit: training, validation, the callback, and after
\* the last epoch the end of fit
FitEpoch ==
    /\ fit_pc = "training"
    /\ \E loss \in Losses :
          LET cb == on_epoch_end(epoch, loss, Snapshot(epoch + 1, loss))
              last == cb.stop_training \/ epoch + 1 = epochs
          IN /\ epoch' = epoch + 1
             /\ val_loss' = loss
             /\ best' = cb.best
             /\ best_weights' = cb.best_weights
             /\ wait' = cb.wait
             /\ stop_training' = cb.stop_training
             /\ weights' = IF last THEN on_train_end(cb.weights, cb.best_weights)
                           ELSE cb.weights
             /\ lowest' = IF lowest = NoSnapshot \/ loss < lowest.val_loss
                          THEN Snapshot(epoch + 1, loss)
                          ELSE lowest
             /\ fit_pc' = IF last THEN "trained" ELSE "training"
    /\ UNCHANGED <<keras_major, evaluated>>
    /\ UNCHANGED <<seqVars, buildVars, splitVars, shiftVars, weightVars, predictVars,
                   scalerVars>>

\* model.evaluate(x_test, y_test) and model.predict(x_test)
Evaluate ==
    /\ fit_pc = "trained"
    /\ evaluated' = weights
    /\ fit_pc' = "evaluated"
    /\ UNCHANGED <<keras_major, epoch, val_loss, best, wait, best_weights, stop_training,
                   weights, lowest>>
    /\ UNCHANGED <<seqVars, buildVars, splitVars, shiftVars, weightVars, predictVars,
                   scalerVars>>

FitNext == FitEpoch \/ Evaluate

SpecFit == FitInit /\ [][FitNext]_vars

\* epochs run since the first epoch that reached the lowest validation loss
SinceLowest == IF lowest = NoSnapshot THEN epoch ELSE epoch - lowest.epoch

FitEnded == fit_pc \in {"trained", "evaluated"}

\* C14: whatever the validation losses are, fit runs at most 60 epochs; it
\* goes on only while fewer than 10 epochs have passed without improving on
\* the lowest validation loss, and when it ends before epoch 60 exactly 10
\* such epochs have passed.
C14_StopsAtPatienceOrEpochs ==
    fit_pc # "idle" =>
        /\ epoch <= epochs
        /\ fit_pc = "training" => epoch < epochs /\ SinceLowest < patience
        /\ FitEnded /\ epoch < epochs => SinceLowest = patience
        /\ FitEnded => epoch = epochs \/ stop_training

C14_Witness ==
    /\ FitEnded
    /\ epoch < epochs
    /\ epoch > patience + 1
    /\ stop_training
    /\ SinceLowest = patience

\* C15: when fit has ended, by patience or after the 60th epoch, the model
\* holds the weights of an epoch with the lowest validation loss of the
\* run, and evaluation and prediction run with these weights.
C15_BestWeightsHeldAfterFit ==
    FitEnded =>
        /\ weights.val_loss = lowest.val_loss
        /\ fit_pc = "evaluated" => evaluated = weights

C15_Witness ==
    /\ fit_pc = "evaluated"
    /\ keras_major = 2
    /\ epoch = epochs
    /\ ~stop_training
    /\ evaluated = Snapshot(epochs, val_loss)
    /\ val_loss > lowest.val_loss

(***************************************************************************)
(* Label encoding and prediction: le.fit_transform(y) in load_data_dl,     *)
(* then predict_emotion, which returns le.classes_[np.argmax(pred)].  The  *)
(* model's last layer is Dense(num_classes, softmax) with num_classes =    *)
(* y_train.shape[1], the width of to_categorical(y_enc), so pred has one   *)
(* entry per class of the encoder; an entry is a level of probability.     *)
(***************************************************************************)
MaxProb == 2

Probs == 0..MaxProb

\* the label strings in the order np.unique sorts them
SortedLabels ==
    <<"angry", "calm", "disgust", "fearful", "happy", "neutral", "sad", "surprised">>

\* LabelEncoder.fit(y): classes_ = np.unique(y)
LabelEncoderFit(labels) ==
    LET Keep(l) == l \in labels IN SelectSeq(SortedLabels, Keep)

\* faulty variant of LabelEncoder.transform: the position of the label in
\* the emotion table instead of its position in classes_
TableOrderMutant(classes, label) ==
    (CHOOSE k \in 1..Len(observed_emotions) : observed_emotions[k] = label) - 1

\* LabelEncoder.transform of one label that occurs in classes: its index
Transform(classes, label) ==
    (CHOOSE k \in 1..Len(classes) : classes[k] = label) - 1

\* array[i] for an index i from 0; IndexError beyond the last entry
ArrayAt(array, i) ==
    IF i >= 0 /\ i < Len(array) THEN array[i + 1] ELSE "IndexError"

\* faulty variant of np.argmax: no class when all entries are equal
ConfidenceThresholdMutant(v) ==
    IF \A j, k \in 1..Len(v) : v[j] = v[k]
    THEN Len(v)
    ELSE (CHOOSE k \in 1..Len(v) :
             /\ \A j \in 1..Len(v) : v[j] <= v[k]
             /\ \A j \in 1..(k - 1) : v[j] < v[k]) - 1

\* np.argmax(v): the first index of the largest entry
NpArgmax(v) ==
    (CHOOSE k \in 1..Len(v) :
        /\ \A j \in 1..Len(v) : v[j] <= v[k]
        /\ \A j \in 1..(k - 1) : v[j] < v[k]) - 1

PredictInit ==
    /\ SeqIdle /\ BuildIdle /\ SplitIdle
    /\ ShiftIdle /\ WeightIdle /\ FitIdle /\ ScalerIdle
    /\ le_y \in (SUBSET { SortedLabels[k] : k \in 1..Len(SortedLabels) }) \ {{}}
    /\ classes_ = <<>>
    /\ pred = <<>>
    /\ predicted = NoneVal
    /\ predict_pc = "start"

\* le = LabelEncoder(); y_enc = le.fit_transform(y)
FitEncoder ==
    /\ predict_pc = "start"
    /\ classes_' = LabelEncoderFit(le_y)
    /\ predict_pc' = "fitted"
    /\ UNCHANGED <<le_y, pred, predicted>>
    /\ UNCHANGED <<seqVars, buildVars, splitVars, shiftVars, weightVars, fitVars,
                   scalerVars>>

\* predict_emotion(file_path, model, le)
PredictEmotion ==
    /\ predict_pc = "fitted"
    /\ \E p \in [1..Len(classes_) -> Probs] :
          LET result == ArrayAt(classes_, NpArgmax(p))
          IN /\ pred' = p
             /\ IF result = "IndexError"
                THEN predicted' = NoneVal /\ predict_pc' = "raised"
                ELSE predicted' = result /\ predict_pc' = "returned"
    /\ UNCHANGED <<le_y, classes_>>
    /\ UNCHANGED <<seqVars, buildVars, splitVars, shiftVars, weightVars, fitVars,
                   scalerVars>>

PredictNext == FitEncoder \/ PredictEmotion

SpecPredict == PredictInit /\ [][PredictNext]_vars

\* C16: for every vector the model outputs, uniform and low-confidence ones
\* included, predict_emotion does not raise and returns the encoder's class
\* at an index where the vector is largest: one of the encoder's labels.
C16_PredictReturnsArgmaxClass ==
    predict_pc \in {"returned", "raised"} =>
        /\ predict_pc = "returned"
        /\ predicted \in le_y
        /\ \E k \in 1..Len(pred) :
              /\ \A j \in 1..Len(pred) : pred[j] <= pred[k]
              /\ predicted = classes_[k]

C16_Witness ==
    /\ predict_pc = "returned"
    /\ Len(classes_) = 8
    /\ \A j \in 1..Len(pred) : pred[j] = 1      \* a uniform vector
    /\ predicted = "angry"

\* C19: encoding then decoding is the identity on the labels the encoder
\* was fitted on, all 8 emotion strings included: distinct labels have
\* distinct indices within the class list, and the class list at the index
\* of a label is that label.
C19_EncodeDecodeIsIdentity ==
    predict_pc \in {"fitted", "returned", "raised"} =>
        /\ \A l \in le_y :
              /\ Transform(classes_, l) \in 0..(Len(classes_) - 1)
              /\ ArrayAt(classes_, Transform(classes_, l)) = l
        /\ \A l, m \in le_y :
              l # m => Transform(classes_, l) # Transform(classes_, m)

C19_Witness ==
    /\ predict_pc = "fitted"
    /\ le_y = { observed_emotions[k] : k \in 1..Len(observed_emotions) }
    /\ Transform(classes_, "neutral") = 5
    /\ ArrayAt(classes_, 5) = "neutral"

(***************************************************************************)
(* The time-shift augmentation: shift(data, shift_max, shift_direction)    *)
(* draws shift_amt = np.random.randint(int(len(data) * shift_max)), makes  *)
(* it negative for 'right' and, on a second draw, for 'both', and returns  *)
(* np.roll(data, shift_amt).  The draws are nondeterministic.              *)
(***************************************************************************)
MaxSamples == 5

SampleValues == {0, 1}

Waveforms == UNION { [1..n -> SampleValues] : n \in 0..MaxSamples }

\* 0, 0.2 (the default), 0.5 and 1
ShiftFractions ==
    { [num |-> 0, den |-> 1], [num |-> ShiftMaxNum, den |-> ShiftMaxDen],
      [num |-> 1, den |-> 2], [num |-> 1, den |-> 1] }

ShiftDirections == {"both", "right", "left"}

\* int(n * fraction)
IntTimes(n, fraction) == (n * fraction.num) \div fraction.den

\* faulty variant of np.roll: the samples pushed over an end are dropped
\* and zeros come in at the other end
ShiftFillMutant(a, s) ==
    [j \in 1..Len(a) |-> IF j - s >= 1 /\ j - s <= Len(a) THEN a[j - s] ELSE 0]

\* np.roll(a, s): the sample at index i goes to index (i + s) mod len(a)
NpRoll(a, s) == [j \in 1..Len(a) |-> a[((j - 1 - s) % Len(a)) + 1]]

ShiftRaised(type) == [error |-> type, shift_amt |-> 0, out |-> <<>>]

ShiftReturned(s, out) == [error |-> "", shift_amt |-> s, out |-> out]

\* shift(d, shift_max=fraction, shift_direction=direction): what it can do
shift(d, fraction, direction) ==
    LET high == IntTimes(Len(d), fraction) IN
    IF RandintRaises(high)
    THEN {ShiftRaised("ValueError")}
    ELSE LET signed(amt) == IF direction = "right" THEN {-amt}
                            ELSE IF direction = "both" THEN {amt, -amt}
                            ELSE {amt}
         IN { ShiftReturned(s, NpRoll(d, s)) :
                s \in UNION { signed(amt) : amt \in 0..(high - 1) } }

ShiftInit ==
    /\ SeqIdle /\ BuildIdle /\ SplitIdle
    /\ WeightIdle /\ FitIdle /\ PredictIdle /\ ScalerIdle
    /\ data \in Waveforms
    /\ shift_max \in ShiftFractions
    /\ shift_direction \in ShiftDirections
    /\ shift_amt = 0
    /\ shift_out = <<>>
    /\ shift_pc = "called"

Shift ==
    /\ shift_pc = "called"
    /\ \E o \in shift(data, shift_max, shift_direction) :
          /\ shift_amt' = o.shift_amt
          /\ shift_out' = o.out
          /\ shift_pc' = IF o.error = "" THEN "returned" ELSE "raised"
    /\ UNCHANGED <<data, shift_max, shift_direction>>
    /\ UNCHANGED <<seqVars, buildVars, splitVars, weightVars, fitVars, predictVars,
                   scalerVars>>

ShiftNext == Shift

SpecShift == ShiftInit /\ [][ShiftNext]_vars

\* the number of samples of waveform a that have the value v
Occurrences(a, v) == Cardinality({ k \in 1..Len(a) : a[k] = v })

\* C17: what shift returns is a circular rotation of its input: the same
\* length, every value as often as in the input, the sample of index i at
\* index (i + s) mod len for the drawn signed shift s (indices from 0), and
\* rotating it by -s gives the input back.
C17_ShiftIsRotation ==
    shift_pc = "returned" =>
        /\ Len(shift_out) = Len(data)
        /\ \A v \in SampleValues : Occurrences(shift_out, v) = Occurrences(data, v)
        /\ \A i \in 0..(Len(data) - 1) :
              shift_out[((i + shift_amt) % Len(data)) + 1] = data[i + 1]
        /\ NpRoll(shift_out, -shift_amt) = data

C17_Witness ==
    /\ shift_pc = "returned"
    /\ shift_direction = "both"
    /\ shift_amt = -2
    /\ data = <<1, 0, 0, 0, 0>>
    /\ shift_out = <<0, 0, 0, 1, 0>>

\* len(data) * shift_max < 1: the range of the draw is empty
DegenerateRange == Len(data) * shift_max.num < shift_max.den

\* C18: when len(data) * shift_max < 1 (an empty waveform, shift_max 0)
\* shift does not raise and returns the waveform unchanged, the shift
\* amount being 0.
C18_DegenerateRangeIsNoOp ==
    (DegenerateRange /\ shift_pc \in {"returned", "raised"}) =>
        /\ shift_pc = "returned"
        /\ shift_amt = 0
        /\ shift_out = data

C18_Witness ==
    /\ DegenerateRange
    /\ shift_pc = "raised"
    /\ Len(data) = 3
    /\ shift_max = [num |-> ShiftMaxNum, den |-> ShiftMaxDen]

(***************************************************************************)
(* Standardisation in the classical path: scaler = StandardScaler(),       *)
(* x_train_scaled = scaler.fit_transform(x_train), x_test_scaled =         *)
(* scaler.transform(x_test).  Two runs of the cell are kept side by side,  *)
(* with the same training features and each its own test features.  One    *)
(* feature column is modelled; mean_ and var_ are exact quotients, and a   *)
(* scaled value is kept as its centred numerator over the variance that    *)
(* scale_ is the square root of.                                           *)
(***************************************************************************)
MaxRows == 3

FeatureValues == {0, 1}

Runs == {1, 2}

FeatureColumns == UNION { [1..n -> FeatureValues] : n \in 1..MaxRows }

RECURSIVE SumSeq(_)
SumSeq(a) == IF a = <<>> THEN 0 ELSE Head(a) + SumSeq(Tail(a))

Squares(a) == [k \in 1..Len(a) |-> a[k] * a[k]]

\* a StandardScaler before fit
NoScaler == [mean_ |-> Rat(0, 0), var_ |-> Rat(0, 0)]

\* StandardScaler.fit(X): mean_ = sum / n, var_ = sum of squares / n - mean_^2
StandardScalerFit(X) ==
    LET n == Len(X)
        sum == SumSeq(X)
    IN [mean_ |-> Rat(sum, n),
        var_ |-> Rat(n * SumSeq(Squares(X)) - sum * sum, n * n)]

\* StandardScaler.transform(X): (X - mean_) / scale_, scale_ = sqrt(var_)
\* and 1 where var_ is 0
StandardScalerTransform(sc, X) ==
    [k \in 1..Len(X) |->
        [centred |-> Rat(X[k] * sc.mean_.den - sc.mean_.num, sc.mean_.den),
         scale_squared |-> IF sc.var_.num = 0 THEN Rat(1, 1) ELSE sc.var_]]

\* faulty variant of the cell: the scaler is fitted on train and test together
FitOnAllMutant(x_tr, x_te) ==
    LET sc == StandardScalerFit(x_tr \o x_te)
    IN [scaler |-> sc,
        x_train_scaled |-> StandardScalerTransform(sc, x_tr),
        x_test_scaled |-> StandardScalerTransform(sc, x_te)]

\* the three statements of the cell
ScaleSplits(x_tr, x_te) ==
    LET sc == StandardScalerFit(x_tr)
    IN [scaler |-> sc,
        x_train_scaled |-> StandardScalerTransform(sc, x_tr),
        x_test_scaled |-> StandardScalerTransform(sc, x_te)]

ScalerInit ==
    /\ SeqIdle /\ BuildIdle /\ SplitIdle
    /\ ShiftIdle /\ WeightIdle /\ FitIdle /\ PredictIdle
    /\ x_train \in FeatureColumns
    /\ x_test \in [Runs -> FeatureColumns]
    /\ scaler = [r \in Runs |-> NoScaler]
    /\ x_train_scaled = [r \in Runs |-> <<>>]
    /\ x_test_scaled = [r \in Runs |-> <<>>]
    /\ scaler_pc = [r \in Runs |-> "start"]

ScaleRun(r) ==
    /\ scaler_pc[r] = "start"
    /\ LET cell == ScaleSplits(x_train, x_test[r])
       IN /\ scaler' = [scaler EXCEPT ![r] = cell.scaler]
          /\ x_train_scaled' = [x_train_scaled EXCEPT ![r] = cell.x_train_scaled]
          /\ x_test_scaled' = [x_test_scaled EXCEPT ![r] = cell.x_test_scaled]
    /\ scaler_pc' = [scaler_pc EXCEPT ![r] = "done"]
    /\ UNCHANGED <<x_train, x_test>>
    /\ UNCHANGED <<seqVars, buildVars, splitVars, shiftVars, weightVars, fitVars,
                   predictVars>>

ScalerNext == \E r \in Runs : ScaleRun(r)

SpecScaler == ScalerInit /\ [][ScalerNext]_vars

\* C20: the fitted scaler depends on the training features only: two runs
\* with the same training features fit the same scaler and scale the
\* training features alike, whatever their test features are, and within a
\* run the one fitted scaler is what scales both the training and the test
\* features.
C20_ScalerDependsOnTrainOnly ==
    /\ \A r, q \in Runs :
          (scaler_pc[r] = "done" /\ scaler_pc[q] = "done") =>
              /\ scaler[r] = scaler[q]
              /\ x_train_scaled[r] = x_train_scaled[q]
    /\ \A r \in Runs :
          scaler_pc[r] = "done" =>
              /\ scaler[r] # NoScaler
              /\ x_train_scaled[r] = StandardScalerTransform(scaler[r], x_train)
              /\ x_test_scaled[r] = StandardScalerTransform(scaler[r], x_test[r])

C20_Witness ==
    /\ \A r \in Runs : scaler_pc[r] = "done"
    /\ x_train = <<0, 1, 1>>
    /\ x_test[1] = <<0>>
    /\ x_test[2] = <<1, 1>>
    /\ scaler[1] = scaler[2]
    /\ scaler[1].mean_ = Rat(2, 3)
    /\ scaler[1].var_ = Rat(2, 9)

(***************************************************************************)
(* Claims about the augmentation of the dataset builders.                  *)
(***************************************************************************)
\* C21: whenever load_data with augment=True has ended, by returning or by
\* an exception, temp_shift.wav no longer exists.
C21_TempFileRemoved ==
    (builder = "load_data" /\ augment /\ pc \in {"returned", "raised"}) => ~temp_file

\* extract_feature(temp_file) raised and the file written before it is left
C21_Witness ==
    /\ builder = "load_data"
    /\ augment
    /\ pc = "raised"
    /\ err.at = "extract_shift"
    /\ temp_file

(***************************************************************************)
(* Claims about the keys of the class-weight map.                          *)
(***************************************************************************)
\* C22: each key of class_weight_dict is the encoder index of the class
\* whose weight it holds: for every class index c that occurs in the
\* training labels, class_weight_dict[c] is the balanced weight of class c.
C22_WeightKeyedByClassIndex ==
    weight_pc = "done" =>
        \A c \in DOMAIN y_train_labels :
            /\ c \in DOMAIN class_weight_dict
            /\ RatEq(class_weight_dict[c],
                     Rat(Total(y_train_labels),
                         Cardinality(DOMAIN y_train_labels) * y_train_labels[c]))

\* class index 1 does not occur in train: key 1 holds the weight of class 2
\* and there is no key 2
C22_Witness ==
    /\ weight_pc = "done"
    /\ y_train_labels = (0 :> 1) @@ (2 :> 3)
    /\ DOMAIN class_weight_dict = {0, 1}
    /\ class_weight_dict[1] = Rat(4, 6)

(***************************************************************************)
(* Claims about the examples of a clip.                                    *)
(***************************************************************************)
\* the example at position p is the n-th its clip appended
Ordinal(p) == Cardinality({ q \in ExamplesOf(x[p].clip) : q <= p })

\* C23: in load_data with augment=True the second example of a clip is
\* extracted from its noise-perturbed waveform and the third from its
\* time-shifted waveform, neither from the unmodified file.
C23_LoadDataAugmentsFromVariants ==
    (builder = "load_data" /\ augment)
    =>
    \A p \in 1..Len(x) :
        /\ Ordinal(p) = 2 => x[p].wave = "noise"
        /\ Ordinal(p) = 3 => x[p].wave = "shift"

\* a clip went through the whole augmentation: its second example comes
\* from the unmodified file, like the first
C23_Witness ==
    /\ builder = "load_data"
    /\ augment
    /\ pc = "returned"
    /\ Len(x) >= 3
    /\ x[1] = Example(1, "original")
    /\ x[2] = Example(1, "original")
    /\ x[3] = Example(1, "shift")

(***************************************************************************)
(* Claims about the labels load_data_dl returns: y_enc =                   *)
(* le.fit_transform(y), y_cat = to_categorical(y_enc); y_train and y_test  *)
(* are the rows of y_cat at the positions of train and of test.            *)
(***************************************************************************)
\* np.max of a non-empty integer array
NpMax(a) == CHOOSE m \in { a[k] : k \in 1..Len(a) } : \A k \in 1..Len(a) : a[k] <= m

\* le.fit_transform(labels)
FitTransform(labels) ==
    LET classes == LabelEncoderFit({ labels[k] : k \in 1..Len(labels) })
    IN [k \in 1..Len(labels) |-> Transform(classes, labels[k])]

\* to_categorical(indices): num_classes is np.max(indices) + 1
ToCategorical(indices) ==
    [k \in 1..Len(indices) |->
        [j \in 1..(NpMax(indices) + 1) |-> IF j = indices[k] + 1 THEN 1 ELSE 0]]

\* C24: every label load_data_dl returns is a one-hot vector of width
\* exactly 8, its single 1 at the encoder index of the label, also when
\* some of the 8 emotions do not occur in the dataset.
C24_OneHotWidthIsEight ==
    (builder = "load_data_dl" /\ pc = "returned")
    =>
    LET y_enc == FitTransform(y)
        y_cat == ToCategorical(y_enc)
    IN \A p \in train \cup test :
          /\ Len(y_cat[p]) = Len(observed_emotions)
          /\ \A j \in 1..Len(y_cat[p]) : y_cat[p][j] = (IF j = y_enc[p] + 1 THEN 1 ELSE 0)

\* a dataset of two emotions: the one-hot vectors have width 2
C24_Witness ==
    /\ builder = "load_data_dl"
    /\ pc = "returned"
    /\ { y[k] : k \in 1..Len(y) } = {"neutral", "calm"}
    /\ ToCategorical(FitTransform(y))[1] \in {<<1, 0>>, <<0, 1>>}

(***************************************************************************)
(* Claims about the parsing of file names.                                 *)
(***************************************************************************)
\* the stem has at least three tokens and its token at index 2 is a code of
\* the table
StemRecognized(f) == Len(f.name.stem) >= 3 /\ f.name.stem[3] \in DOMAIN emotions

StemLabelOf(f) == emotions[f.name.stem[3]]

\* the builder went through the iteration over the k-th file
Iterated(k) == k <= idx \/ (pc = "raised" /\ k = idx + 1)

\* C25: the label of a clip is the table entry of the token at index 2 of
\* the stem of its file name, the extension left out, for every stem of
\* three tokens or more: a readable clip with such a stem, 03-01-05.wav
\* included, is in the dataset under that label, and the builder does not
\* fail on its name.
C25_LabelFromStemToken ==
    \A k \in 1..Len(files) :
        (StemRecognized(files[k]) /\ files[k].readable /\ Iterated(k))
        =>
        /\ ~(pc = "raised" /\ k = idx + 1 /\ err.at \in {"parse", "lookup"})
        /\ ExamplesOf(k) # {}
        /\ \A p \in ExamplesOf(k) : y[p] = StemLabelOf(files[k])

\* load_data_dl went over 03-01-05.wav without an error and without an
\* example for it
C25_Witness ==
    /\ builder = "load_data_dl"
    /\ pc = "returned"
    /\ \E k \in 1..Len(files) :
          /\ files[k].name.stem = <<"03", "01", "05">>
          /\ ExamplesOf(k) = {}
          /\ k \notin Printed

(***************************************************************************)
(* Claims about a failure inside the try block of load_data_dl.            *)
(***************************************************************************)
AllVariants == <<"original", "noise", "shift">>

\* the examples of the k-th file are the first n variants, one after the
\* other, under the label of the file
ContributesPrefix(k, n) ==
    \E p \in 1..(Len(x) + 1) :
        /\ ExamplesOf(k) = p..(p + n - 1)
        /\ \A v \in 1..n :
              /\ x[p + v - 1].wave = AllVariants[v]
              /\ y[p + v - 1] = LabelOf(files[k])

\* C26: in load_data_dl with augment=True an exception of the try block
\* never leaves the loop; a clip contributes a prefix of (original, noise,
\* shift) of length 0 to 3: what it appended before a statement raised
\* stays (the original at least, when the clip could be decoded), the rest
\* is omitted, the error is printed, and the loop goes on to the next clip.
C26_FailedClipContributesPrefix ==
    (builder = "load_data_dl" /\ augment)
    =>
    /\ pc = "raised" => err.at \in {"parse", "encode", "split"}
    /\ \A k \in 1..idx :
          Recognized(files[k]) =>
             \E n \in 0..Len(AllVariants) :
                /\ ContributesPrefix(k, n)
                /\ files[k].readable => n >= 1
                /\ n < Len(AllVariants) <=> k \in Printed

\* the first clip lost its noise and shift variants, the second was
\* processed in full after it
C26_Witness ==
    /\ builder = "load_data_dl"
    /\ augment
    /\ idx >= 2
    /\ files[1].readable
    /\ ContributesPrefix(1, 1)
    /\ 1 \in Printed
    /\ ContributesPrefix(2, 3)


(***************************************************************************)
(* Claims about the alignment of the feature list and the label list.      *)
(***************************************************************************)
\* C27: at the end of every loop iteration of load_data_dl and of load_data
\* (the file was included, skipped, or failed) the feature list and the
\* label list have the same length, and the label at each position is the
\* label parsed from the file name of the clip that produced the feature
\* at that position.
C27_FeaturesAndLabelsAligned ==
    (builder \in {"load_data_dl", "load_data"})
    =>
    /\ Len(x) = Len(y)
    /\ \A p \in 1..Len(x) :
          /\ x[p].clip \in 1..Len(files)
          /\ Iterated(x[p].clip)
          /\ Recognized(files[x[p].clip])
          /\ y[p] = LabelOf(files[x[p].clip])

\* three iterations are over: one file was skipped, one failed after its
\* first example, one was included with its three examples, under another
\* label
C27_Witness ==
    /\ builder = "load_data_dl"
    /\ pc = "loop"
    /\ idx = 3
    /\ \E i, j, k \in 1..3 :
          /\ ExamplesOf(i) = {} /\ i \notin Printed
          /\ Cardinality(ExamplesOf(j)) = 1 /\ j \in Printed
          /\ Cardinality(ExamplesOf(k)) = 3
          /\ LabelOf(files[j]) # LabelOf(files[k])


(***************************************************************************)
(* Claims about the label encoding of the classical path:                  *)
(* y_train_enc = le.fit_transform(y_train); y_test_enc = le.transform(     *)
(* y_test), which raises ValueError on a label that is not in classes_.    *)
(***************************************************************************)
\* the labels at a set of positions of y
LabelsAt(positions) == { y[p] : p \in positions }

\* LabelEncoder.transform(labels) raises: labels holds a label that is not
\* in classes
TransformRaises(classes, labels) ==
    \E l \in labels : ~\E k \in 1..Len(classes) : classes[k] = l

\* C28: on the classical path the encoder is fit on the training labels
\* only, and encoding the test labels never fails: every class of the test
\* partition load_data returns occurs in the train partition too.
C28_TestLabelsKnownToEncoder ==
    (builder = "load_data" /\ pc = "returned")
    =>
    LET le == LabelEncoderFit(LabelsAt(train))
    IN /\ ~TransformRaises(le, LabelsAt(test))
       /\ LabelsAt(test) \subseteq LabelsAt(train)

\* one neutral and one calm clip, split in halves: the test partition holds
\* a class the encoder has not seen
C28_Witness ==
    /\ builder = "load_data"
    /\ pc = "returned"
    /\ Len(y) = 2
    /\ LabelsAt(train) = {"neutral"}
    /\ LabelsAt(test) = {"calm"}
    /\ TransformRaises(LabelEncoderFit(LabelsAt(train)), LabelsAt(test))
====
